---------------------------- MODULE Spec2Model ----------------------------
(***************************************************************************)
(* Model of the Kei runtime (compiler/src/runtime/runtime.h): the          *)
(* reference-counted string type and the bounds check.                     *)
(*                                                                         *)
(* Memory is modelled explicitly.  A data pointer is an integer: NULL is   *)
(* 0, a positive value is the address of a malloc'ed byte buffer, and a    *)
(* negative value -i is the address of the i-th static string literal.     *)
(* A ref pointer is NULL or the address of a malloc'ed int64 counter cell. *)
(* Bytes are small positive integers; 0 is the terminator '\0'.            *)
(*                                                                         *)
(* The program's variables of type kei_string are the slots 1..MaxHandles. *)
(* Generated code obtains a handle from literal/alloc/copy/concat/substr   *)
(* into a slot, and passes only handles it has not yet destroyed to the    *)
(* operations other than kei_string_destroy.                               *)
(***************************************************************************)
EXTENDS Integers, Sequences, FiniteSets

\* ----------------------------------------------------------------- bounds
\* Number of kei_string variables of the modelled program (and of buffers).
MaxHandles == 3
\* Largest string length the modelled program builds.
MaxLen == 2

\* -------------------------------------------------------------- constants
NULL == 0

Handles == 1..MaxHandles
Addrs   == 1..MaxHandles
Chars   == {1, 2}

\* The static string literals of the program; literal i lives at address -i.
Literals == << <<>>, <<1>>, <<1, 2>> >>
EmptyLit == 1

\* Arguments the modelled program passes as indices.
Ints == (0 - 1)..(MaxLen + 1)

VARIABLES
    hv,        \* slot -> kei_string (the four struct fields)
    slot,      \* slot -> "empty" | "live" | "destroyed" (caller's bookkeeping)
    mem,       \* address -> malloc'ed byte buffer
    cnt,       \* address -> malloc'ed int64 counter cell
    hist,      \* cell address -> calls made on that allocation so far
    status,    \* "running", or how the process ended
    diag,      \* last line written to stderr
    nullWrite, \* a store through a null pointer has been executed
    last       \* the most recent runtime call and its scalar results

vars == <<hv, slot, mem, cnt, hist, status, diag, nullWrite, last>>

\* ------------------------------------------------------------------ heap
UnusedBuf  == [st |-> "unused", bytes |-> <<>>, nfree |-> 0]
UnusedCell == [st |-> "unused", val |-> 0, nfree |-> 0]

\* malloc returns the address of a block that is not in use; the model names
\* the blocks in the order they are handed out.
malloc(heap) ==
    IF \E a \in Addrs : heap[a].st = "unused"
    THEN CHOOSE a \in Addrs : /\ heap[a].st = "unused"
                              /\ \A b \in Addrs : heap[b].st = "unused" => a <= b
    ELSE NULL

\* free(p): free(NULL) does nothing; otherwise the block is released.
free(heap, p) ==
    IF p = NULL THEN heap
    ELSE [heap EXCEPT ![p].st = "freed", ![p].nfree = @ + 1]

\* The bytes a data pointer points at (with the terminator where there is one).
CBytes(m, p) == IF p < 0 THEN Literals[0 - p] \o <<0>> ELSE m[p].bytes

strlen(bytes) ==
    (CHOOSE i \in 1..Len(bytes) :
        /\ bytes[i] = 0
        /\ \A j \in 1..(i - 1) : bytes[j] # 0) - 1

\* memcpy(dst + off, src, n) on byte sequences (1-based positions off+1..off+n).
memcpy(dst, off, src, n) ==
    [k \in 1..Len(dst) |-> IF k > off /\ k <= off + n THEN src[k - off] ELSE dst[k]]

SetByte(bytes, idx, v) == [bytes EXCEPT ![idx + 1] = v]

\* ------------------------------------------------------- string functions
NoString == [data |-> NULL, len |-> 0, cap |-> 0, ref |-> NULL]

kei_string_literal(i) ==
    [data |-> 0 - i, len |-> strlen(Literals[i] \o <<0>>), cap |-> 0, ref |-> NULL]

\* Faulty variant: the counter is not incremented.
kei_string_copy_noIncrement(c, s) == [cnt |-> c, r |-> s]

kei_string_copy(c, s) ==
    [cnt |-> IF s.ref # NULL THEN [c EXCEPT ![s.ref].val = @ + 1] ELSE c,
     r   |-> s]

\* Faulty variant: "< 0" for "<= 0", so nothing is ever released.
kei_string_destroy_neverFrees(m, c, s) ==
    IF s.ref # NULL
    THEN LET c1 == [c EXCEPT ![s.ref].val = @ - 1]
         IN  [mem |-> m, cnt |-> c1,
              s   |-> [s EXCEPT !.ref = NULL, !.data = NULL],
              bad |-> c[s.ref].st # "live"]
    ELSE [mem |-> m, cnt |-> c, s |-> s, bad |-> FALSE]

\* Faulty variant: the two fields are cleared outside the ownership test.
kei_string_destroy_clearsAlways(m, c, s) ==
    IF s.ref # NULL
    THEN LET c1   == [c EXCEPT ![s.ref].val = @ - 1]
             zero == c1[s.ref].val <= 0
         IN  [mem |-> IF zero THEN free(m, s.data) ELSE m,
              cnt |-> IF zero THEN free(c1, s.ref) ELSE c1,
              s   |-> [s EXCEPT !.ref = NULL, !.data = NULL],
              bad |-> \/ c[s.ref].st # "live"
                      \/ zero /\ s.data # NULL /\ m[s.data].st # "live"]
    ELSE [mem |-> m, cnt |-> c, s |-> [s EXCEPT !.ref = NULL, !.data = NULL],
          bad |-> FALSE]

\* Faulty variant: the two fields are cleared only when the counter reached 0.
kei_string_destroy_clearsAtZero(m, c, s) ==
    IF s.ref # NULL
    THEN LET c1   == [c EXCEPT ![s.ref].val = @ - 1]
             zero == c1[s.ref].val <= 0
         IN  [mem |-> IF zero THEN free(m, s.data) ELSE m,
              cnt |-> IF zero THEN free(c1, s.ref) ELSE c1,
              s   |-> IF zero THEN [s EXCEPT !.ref = NULL, !.data = NULL] ELSE s,
              bad |-> \/ c[s.ref].st # "live"
                      \/ zero /\ s.data # NULL /\ m[s.data].st # "live"]
    ELSE [mem |-> m, cnt |-> c, s |-> s, bad |-> FALSE]

\* Result: the heap after the call, the handle after the call, and whether
\* the call touched a block that was not allocated (undefined behaviour).
kei_string_destroy(m, c, s) ==
    IF s.ref # NULL
    THEN LET c1   == [c EXCEPT ![s.ref].val = @ - 1]
             zero == c1[s.ref].val <= 0
         IN  [mem |-> IF zero THEN free(m, s.data) ELSE m,
              cnt |-> IF zero THEN free(c1, s.ref) ELSE c1,
              s   |-> [s EXCEPT !.ref = NULL, !.data = NULL],
              bad |-> \/ c[s.ref].st # "live"
                      \/ zero /\ s.data # NULL /\ m[s.data].st # "live"]
    ELSE [mem |-> m, cnt |-> c, s |-> s, bad |-> FALSE]

\* Faulty variant: cap is set to len, not len + 1.
kei_string_alloc_capIsLen(m, c, len, o) ==
    LET d  == IF o.dOK THEN malloc(m) ELSE NULL
        m1 == IF d # NULL
              THEN [m EXCEPT ![d] = [st |-> "live",
                                     bytes |-> [k \in 1..(len + 1) |-> o.fill],
                                     nfree |-> 0]]
              ELSE m
        p  == IF o.rOK THEN malloc(c) ELSE NULL
        c1 == IF p # NULL
              THEN [c EXCEPT ![p] = [st |-> "live", val |-> 1, nfree |-> 0]]
              ELSE c
        m2 == IF d # NULL /\ p # NULL
              THEN [m1 EXCEPT ![d].bytes = SetByte(@, len, 0)]
              ELSE m1
    IN  [mem   |-> m2,
         cnt   |-> c1,
         r     |-> [data |-> d, len |-> len, cap |-> len, ref |-> p],
         fault |-> d = NULL \/ p = NULL]

\* o: what the allocator does during the call: o.dOK, o.rOK say whether the
\* first and the second malloc succeed, o.fill is the uninitialised content
\* of the new buffer.  fault: a store through a null pointer was executed
\* (malloc's result is not checked).
kei_string_alloc(m, c, len, o) ==
    LET d  == IF o.dOK THEN malloc(m) ELSE NULL
        m1 == IF d # NULL
              THEN [m EXCEPT ![d] = [st |-> "live",
                                     bytes |-> [k \in 1..(len + 1) |-> o.fill],
                                     nfree |-> 0]]
              ELSE m
        p  == IF o.rOK THEN malloc(c) ELSE NULL
        c1 == IF p # NULL
              THEN [c EXCEPT ![p] = [st |-> "live", val |-> 1, nfree |-> 0]]
              ELSE c
        m2 == IF d # NULL /\ p # NULL
              THEN [m1 EXCEPT ![d].bytes = SetByte(@, len, 0)]
              ELSE m1
    IN  [mem   |-> m2,
         cnt   |-> c1,
         r     |-> [data |-> d, len |-> len, cap |-> len + 1, ref |-> p],
         fault |-> d = NULL \/ p = NULL]

\* Faulty variant: b is copied to the start of the buffer, not after a.
kei_string_concat_bAtStart(m, c, a, b, o) ==
    LET newLen == a.len + b.len
        al     == kei_string_alloc(m, c, newLen, o)
        r      == al.r
    IN  IF al.fault THEN al
        ELSE LET b1 == memcpy(al.mem[r.data].bytes, 0, CBytes(m, a.data), a.len)
                 b2 == memcpy(b1, 0, CBytes(m, b.data), b.len)
                 b3 == SetByte(b2, newLen, 0)
             IN  [al EXCEPT !.mem[r.data].bytes = b3]

kei_string_concat(m, c, a, b, o) ==
    LET newLen == a.len + b.len
        al     == kei_string_alloc(m, c, newLen, o)
        r      == al.r
    IN  IF al.fault THEN al
        ELSE LET b1 == memcpy(al.mem[r.data].bytes, 0, CBytes(m, a.data), a.len)
                 b2 == memcpy(b1, a.len, CBytes(m, b.data), b.len)
                 b3 == SetByte(b2, newLen, 0)
             IN  [al EXCEPT !.mem[r.data].bytes = b3]

memcmp(x, y, n) == \A k \in 1..n : x[k] = y[k]

\* Faulty variant: the pointer comparison comes before the length comparison.
kei_string_eq_pointerFirst(m, a, b) ==
    IF a.data = b.data THEN TRUE
    ELSE IF a.len # b.len THEN FALSE
    ELSE memcmp(CBytes(m, a.data), CBytes(m, b.data), a.len)

kei_string_eq(m, a, b) ==
    IF a.len # b.len THEN FALSE
    ELSE IF a.data = b.data THEN TRUE
    ELSE memcmp(CBytes(m, a.data), CBytes(m, b.data), a.len)

\* Faulty variant: the bytes are copied from s.data, not from s.data + start.
kei_string_substr_fromStart(m, c, s, start0, end0, o) ==
    LET start == IF start0 < 0 THEN 0 ELSE start0
        end   == IF end0 > s.len THEN s.len ELSE end0
    IN  IF start >= end
        THEN [mem |-> m, cnt |-> c, r |-> kei_string_literal(EmptyLit),
              fault |-> FALSE, alloc |-> FALSE]
        ELSE LET newLen == end - start
                 al     == kei_string_alloc(m, c, newLen, o)
                 r      == al.r
                 src    == CBytes(m, s.data)
             IN  IF al.fault
                 THEN [mem |-> al.mem, cnt |-> al.cnt, r |-> r,
                       fault |-> TRUE, alloc |-> TRUE]
                 ELSE LET b1 == memcpy(al.mem[r.data].bytes, 0, src, newLen)
                          b2 == SetByte(b1, newLen, 0)
                      IN  [mem |-> [al.mem EXCEPT ![r.data].bytes = b2],
                           cnt |-> al.cnt, r |-> r,
                           fault |-> FALSE, alloc |-> TRUE]

\* Result as for kei_string_alloc, plus alloc: whether kei_string_alloc ran.
kei_string_substr(m, c, s, start0, end0, o) ==
    LET start == IF start0 < 0 THEN 0 ELSE start0
        end   == IF end0 > s.len THEN s.len ELSE end0
    IN  IF start >= end
        THEN [mem |-> m, cnt |-> c, r |-> kei_string_literal(EmptyLit),
              fault |-> FALSE, alloc |-> FALSE]
        ELSE LET newLen == end - start
                 al     == kei_string_alloc(m, c, newLen, o)
                 r      == al.r
                 src    == CBytes(m, s.data)
             IN  IF al.fault
                 THEN [mem |-> al.mem, cnt |-> al.cnt, r |-> r,
                       fault |-> TRUE, alloc |-> TRUE]
                 ELSE LET b1 == memcpy(al.mem[r.data].bytes, 0,
                                       SubSeq(src, start + 1, Len(src)), newLen)
                          b2 == SetByte(b1, newLen, 0)
                      IN  [mem |-> [al.mem EXCEPT ![r.data].bytes = b2],
                           cnt |-> al.cnt, r |-> r,
                           fault |-> FALSE, alloc |-> TRUE]

\* Faulty variant: "index > length" for "index >= length".
kei_bounds_check_offByOne(index, length) == index < 0 \/ index > length

\* kei_bounds_check: TRUE when the check fails (message printed, exit(1)).
kei_bounds_check(index, length) == index < 0 \/ index >= length


\* ------------------------------------------------------------ environment
\* What the allocator can do during one call of kei_string_alloc: both
\* malloc calls succeed (the new buffer holding zeroes or stale bytes), or
\* the first, the second or both return NULL.
Oracles ==
    {o \in [dOK : BOOLEAN, rOK : BOOLEAN, fill : {0, 2}] :
        o.fill # 0 => o.dOK /\ o.rOK}

\* The allocator when it is not called, or succeeds handing out zeroed memory.
NoFailure == [dOK |-> TRUE, rOK |-> TRUE, fill |-> 0]

\* The variable that receives the result of a call: the first unused slot.
HasDest == \E g \in Handles : slot[g] = "empty"
Dest == CHOOSE g \in Handles :
            /\ slot[g] = "empty"
            /\ \A k \in Handles : slot[k] = "empty" => g <= k

Live(h) == slot[h] = "live"

NoCall == [op |-> "none", a |-> 0, b |-> 0, out |-> 0, i |-> 0, j |-> 0,
           res |-> FALSE, ok |-> TRUE, owned |-> FALSE, again |-> FALSE]

\* What a store through a null pointer can do: the process is killed by a
\* signal, or the store lands somewhere and execution continues with an
\* undefined state (not followed further).
NullStoreOutcomes == {"sigsegv", "undefined"}
\* What releasing or touching a block that is not allocated can do.
BadFreeOutcomes == {"abort", "undefined"}

Init ==
    /\ hv = [h \in Handles |-> NoString]
    /\ slot = [h \in Handles |-> "empty"]
    /\ mem = [a \in Addrs |-> UnusedBuf]
    /\ cnt = [a \in Addrs |-> UnusedCell]
    /\ hist = [a \in Addrs |-> [data |-> NULL, copies |-> 0, destroys |-> 0]]
    /\ status = "running"
    /\ diag = <<>>
    /\ nullWrite = FALSE
    /\ last = NoCall

\* kei_string s = kei_string_literal("...");
Literal(i) ==
    /\ status = "running"
    /\ HasDest
    /\ hv' = [hv EXCEPT ![Dest] = kei_string_literal(i)]
    /\ slot' = [slot EXCEPT ![Dest] = "live"]
    /\ last' = [NoCall EXCEPT !.op = "literal", !.out = Dest, !.i = i]
    /\ UNCHANGED <<mem, cnt, hist, status, diag, nullWrite>>

\* The effect of a call that ran kei_string_alloc (directly or inside concat
\* or substr) with result al, on everything but last.  When a malloc call
\* failed, the store through the null pointer is undefined behaviour: the
\* blocks that were allocated stay allocated, no exit(1) is executed, and the
\* process either dies of the signal or goes on in a state C does not define
\* (no step is modelled after it, and no handle is taken as returned).
Allocated(al) ==
    /\ mem' = al.mem
    /\ cnt' = al.cnt
    /\ diag' = diag
    /\ IF al.fault
       THEN /\ nullWrite' = TRUE
            /\ status' \in NullStoreOutcomes
            /\ UNCHANGED <<hv, slot, hist>>
       ELSE /\ hv' = [hv EXCEPT ![Dest] = al.r]
            /\ slot' = [slot EXCEPT ![Dest] = "live"]
            /\ hist' = [hist EXCEPT ![al.r.ref] =
                           [data |-> al.r.data, copies |-> 0, destroys |-> 0]]
            /\ UNCHANGED <<status, nullWrite>>

\* kei_string s = kei_string_alloc(len);
Alloc(len) ==
    /\ status = "running"
    /\ HasDest
    /\ \E o \in Oracles :
         \E al \in {kei_string_alloc(mem, cnt, len, o)} :
             /\ Allocated(al)
             /\ last' = IF al.fault
                        THEN [NoCall EXCEPT !.op = "alloc", !.ok = FALSE]
                        ELSE [NoCall EXCEPT !.op = "alloc", !.out = Dest, !.i = len]

\* kei_string t = kei_string_copy(s);
Copy(h) ==
    /\ status = "running"
    /\ Live(h)
    /\ HasDest
    /\ LET cp == kei_string_copy(cnt, hv[h])
       IN  /\ cnt' = cp.cnt
           /\ hv' = [hv EXCEPT ![Dest] = cp.r]
           /\ slot' = [slot EXCEPT ![Dest] = "live"]
           /\ hist' = IF hv[h].ref # NULL
                      THEN [hist EXCEPT ![hv[h].ref].copies = @ + 1]
                      ELSE hist
           /\ last' = [NoCall EXCEPT !.op = "copy", !.a = h, !.out = Dest,
                                     !.owned = hv[h].ref # NULL]
    /\ UNCHANGED <<mem, status, diag, nullWrite>>

\* kei_string_destroy(&s); also a repeated call on the same variable.
Destroy(h) ==
    /\ status = "running"
    /\ slot[h] # "empty"
    /\ LET de == kei_string_destroy(mem, cnt, hv[h])
       IN  /\ mem' = de.mem
           /\ cnt' = de.cnt
           /\ hv' = [hv EXCEPT ![h] = de.s]
           /\ status' \in IF de.bad THEN BadFreeOutcomes ELSE {status}
           /\ hist' = IF hv[h].ref # NULL
                      THEN [hist EXCEPT ![hv[h].ref].destroys = @ + 1]
                      ELSE hist
           /\ last' = [NoCall EXCEPT !.op = "destroy", !.a = h,
                                     !.owned = hv[h].ref # NULL,
                                     !.again = slot[h] = "destroyed"]
    /\ slot' = [slot EXCEPT ![h] = "destroyed"]
    /\ UNCHANGED <<diag, nullWrite>>

\* kei_string r = kei_string_concat(a, b);
Concat(a, b) ==
    /\ status = "running"
    /\ Live(a) /\ Live(b)
    /\ HasDest
    /\ hv[a].len + hv[b].len <= MaxLen
    /\ \E o \in Oracles :
         \E al \in {kei_string_concat(mem, cnt, hv[a], hv[b], o)} :
             /\ Allocated(al)
             /\ last' = IF al.fault
                        THEN [NoCall EXCEPT !.op = "concat", !.ok = FALSE]
                        ELSE [NoCall EXCEPT !.op = "concat", !.a = a, !.b = b,
                                            !.out = Dest]

\* kei_string r = kei_string_substr(s, start, end);
Substr(s, start, end) ==
    /\ status = "running"
    /\ Live(s)
    /\ HasDest
    /\ \E o \in (IF kei_string_substr(mem, cnt, hv[s], start, end, NoFailure).alloc
                  THEN Oracles ELSE {NoFailure}) :
         \E su \in {kei_string_substr(mem, cnt, hv[s], start, end, o)} :
             /\ IF su.alloc
                THEN Allocated(su)
                ELSE /\ hv' = [hv EXCEPT ![Dest] = su.r]
                     /\ slot' = [slot EXCEPT ![Dest] = "live"]
                     /\ UNCHANGED <<mem, cnt, hist, status, diag, nullWrite>>
             /\ last' = IF su.fault
                        THEN [NoCall EXCEPT !.op = "substr", !.ok = FALSE]
                        ELSE [NoCall EXCEPT !.op = "substr", !.a = s, !.out = Dest,
                                            !.i = start, !.j = end]

\* bool e = kei_string_eq(a, b);
Eq(a, b) ==
    /\ status = "running"
    /\ Live(a) /\ Live(b)
    /\ last' = [NoCall EXCEPT !.op = "eq", !.a = a, !.b = b,
                              !.res = kei_string_eq(mem, hv[a], hv[b])]
    /\ UNCHANGED <<hv, slot, mem, cnt, hist, status, diag, nullWrite>>

\* kei_bounds_check(index, length);
BoundsCheck(index, length) ==
    /\ status = "running"
    /\ LET failed == kei_bounds_check(index, length)
       IN  /\ status' = IF failed THEN "exit1" ELSE status
           /\ diag' = IF failed
                      THEN <<"panic: index out of bounds", index, length>>
                      ELSE diag
           /\ last' = [NoCall EXCEPT !.op = "bounds", !.i = index, !.j = length,
                                     !.ok = ~failed]
    /\ UNCHANGED <<hv, slot, mem, cnt, hist, nullWrite>>

\* ---------------------------------------------------------- specifications
\* The handles a running program may pass to an operation, and those it may
\* pass to an operation whose result needs a variable.
Args == {h \in Handles : status = "running" /\ Live(h)}
SrcArgs == {h \in Args : HasDest}

\* Spec: the life cycle of string values, from a program that holds no string.
Next ==
    \/ \E i \in 1..Len(Literals) : Literal(i)
    \/ \E len \in 0..MaxLen : Alloc(len)
    \/ \E h \in SrcArgs : Copy(h)
    \/ \E h \in Handles : Destroy(h)

Spec == Init /\ [][Next]_vars

\* The specifications below apply one operation to arguments drawn from the
\* states a program reaches with literal, alloc, copy, concat and substr: all
\* variables but the last hold a string, which is a literal, an owned buffer
\* of its own (any content up to MaxLen bytes, counter 1 plus its aliases), or
\* an alias (kei_string_copy) of an earlier variable's owned buffer.
Strs == UNION {[1..n -> Chars] : n \in 0..MaxLen}

Inputs == 1..(MaxHandles - 1)

Kinds ==
    [k : {"lit"}, i : 1..Len(Literals), x : {<<>>}]
    \cup [k : {"own"}, i : {0}, x : Strs]
    \cup [k : {"alias"}, i : Inputs, x : {<<>>}]

Plans ==
    {p \in [Inputs -> Kinds] :
        \A h \in Inputs : p[h].k = "alias" => p[h].i < h /\ p[p[h].i].k = "own"}

\* The variable whose buffer variable h of plan p refers to.
Owner(p, h) == IF p[h].k = "alias" THEN p[h].i ELSE h
\* Buffers are numbered in the order malloc handed them out.
AddrOf(p, h) == Cardinality({k \in 1..Owner(p, h) : p[k].k = "own"})
Aliases(p, h) == {k \in Inputs : p[k].k = "alias" /\ p[k].i = h}

InitOps ==
    \E p \in Plans :
        /\ hv = [h \in Handles |->
                   IF h \notin Inputs THEN NoString
                   ELSE IF p[h].k = "lit" THEN kei_string_literal(p[h].i)
                   ELSE LET x == p[Owner(p, h)].x
                        IN  [data |-> AddrOf(p, h), len |-> Len(x),
                             cap |-> Len(x) + 1, ref |-> AddrOf(p, h)]]
        /\ slot = [h \in Handles |-> IF h \in Inputs THEN "live" ELSE "empty"]
        /\ mem = [a \in Addrs |->
                    IF \E h \in Inputs : p[h].k = "own" /\ AddrOf(p, h) = a
                    THEN LET h == CHOOSE h \in Inputs :
                                      p[h].k = "own" /\ AddrOf(p, h) = a
                         IN  [st |-> "live", bytes |-> p[h].x \o <<0>>, nfree |-> 0]
                    ELSE UnusedBuf]
        /\ cnt = [a \in Addrs |->
                    IF \E h \in Inputs : p[h].k = "own" /\ AddrOf(p, h) = a
                    THEN LET h == CHOOSE h \in Inputs :
                                      p[h].k = "own" /\ AddrOf(p, h) = a
                         IN  [st |-> "live",
                              val |-> 1 + Cardinality(Aliases(p, h)),
                              nfree |-> 0]
                    ELSE UnusedCell]
        /\ hist = [a \in Addrs |->
                    IF \E h \in Inputs : p[h].k = "own" /\ AddrOf(p, h) = a
                    THEN LET h == CHOOSE h \in Inputs :
                                      p[h].k = "own" /\ AddrOf(p, h) = a
                         IN  [data |-> a, copies |-> Cardinality(Aliases(p, h)),
                              destroys |-> 0]
                    ELSE [data |-> NULL, copies |-> 0, destroys |-> 0]]
        /\ status = "running"
        /\ diag = <<>>
        /\ nullWrite = FALSE
        /\ last = NoCall

\* SpecOps: one concat or substr applied to such arguments.
NextOps ==
    \/ \E a, b \in SrcArgs : Concat(a, b)
    \/ \E s \in SrcArgs, start, end \in Ints : Substr(s, start, end)

SpecOps == InitOps /\ [][NextOps]_vars

\* SpecEq: comparisons of such arguments.
NextEq == \E a, b \in Args : Eq(a, b)

SpecEq == InitOps /\ [][NextEq]_vars

\* SpecCheck: bounds checks in a program holding such strings.
NextCheck == \E index, length \in Ints : BoundsCheck(index, length)

SpecCheck == InitOps /\ [][NextCheck]_vars


\* ------------------------------------------------------------ properties
\* The bytes of a string value: the first len bytes its data pointer points at.
Str(m, s) == SubSeq(CBytes(m, s.data), 1, s.len)

\* The representation invariant of a handle.
RepOK(s) ==
    /\ s.ref = NULL => s.cap = 0
    /\ s.ref # NULL => s.cap = s.len + 1

\* The variables holding a handle to counter cell c that has not been destroyed.
LiveHandlesOf(c) == {h \in Handles : slot[h] = "live" /\ hv[h].ref = c}

\* C1: for every owned allocation with k copies made so far, the buffer and
\* the counter cell stay allocated, with a positive counter, as long as fewer
\* than k+1 destroys were applied, and after the (k+1)-th destroy both have
\* been released exactly once.
C1_ReleasedExactlyOnce ==
    \A c \in Addrs :
        hist[c].data # NULL =>
            LET k == hist[c].copies
                d == hist[c].destroys
                b == hist[c].data
            IN  /\ d <= k + 1
                /\ d < k + 1 =>
                      /\ cnt[c].st = "live" /\ cnt[c].val > 0 /\ cnt[c].nfree = 0
                      /\ mem[b].st = "live" /\ mem[b].nfree = 0
                /\ d = k + 1 =>
                      /\ cnt[c].st = "freed" /\ cnt[c].nfree = 1
                      /\ mem[b].st = "freed" /\ mem[b].nfree = 1

\* Two copies were made and all three handles destroyed.
C1_Witness ==
    \E c \in Addrs :
        /\ hist[c].data # NULL
        /\ hist[c].copies = 2
        /\ hist[c].destroys = 3
        /\ last.op = "destroy"

C2_CounterIsLiveHandles ==
    \A c \in Addrs :
        cnt[c].st = "live" /\ hist[c].data # NULL =>
            cnt[c].val = Cardinality(LiveHandlesOf(c))

C2_Step ==
    /\ last'.op = "alloc" /\ last'.ok => cnt'[hv'[last'.out].ref].val = 1
    /\ \A h \in Handles :
          /\ last'.op = "copy" /\ last'.a = h /\ hv[h].ref # NULL =>
                cnt'[hv[h].ref].val = cnt[hv[h].ref].val + 1
          /\ last'.op = "destroy" /\ last'.a = h /\ hv[h].ref # NULL =>
                cnt'[hv[h].ref].val = cnt[hv[h].ref].val - 1

\* C2: the counter of every allocated owned buffer equals the number of live
\* handles to it; it is 1 right after alloc, each copy raises it by exactly 1
\* and each destroy of an owned handle lowers it by exactly 1.
C2_CounterTracksHandles == []C2_CounterIsLiveHandles /\ [][C2_Step]_vars

\* A destroy has just left a counter of 2: three handles shared the buffer.
C2_Witness ==
    \E c \in Addrs :
        /\ cnt[c].st = "live"
        /\ cnt[c].val = 2
        /\ Cardinality(LiveHandlesOf(c)) = 2
        /\ last.op = "destroy"
        /\ last.owned

\* C3: kei_string_destroy on an unowned handle changes nothing: no buffer or
\* counter cell is released or modified, and no field of any handle changes.
C3_DestroyUnownedNoop ==
    [][\A h \in Handles :
          last'.op = "destroy" /\ last'.a = h /\ hv[h].ref = NULL =>
              /\ hv' = hv
              /\ mem' = mem
              /\ cnt' = cnt
              /\ status' = status]_vars

\* A literal has been destroyed for the second time.
C3_Witness ==
    /\ last.op = "destroy"
    /\ last.again
    /\ ~last.owned
    /\ hv[last.a].data < 0
    /\ hv[last.a] = kei_string_literal(0 - hv[last.a].data)

\* C4: when malloc fails inside kei_string_alloc, the process ends with exit
\* status 1 and no store through the failed allocation is executed.
C4_AllocFailureIsFatalExit ==
    last.op = "alloc" /\ ~last.ok => status = "exit1" /\ ~nullWrite

\* C5 as stated: every handle, also one kei_string_destroy was applied to,
\* satisfies the representation invariant.
C5_RepInvariantAlways ==
    \A h \in Handles : slot[h] # "empty" => RepOK(hv[h])

\* C5 as amended: every handle satisfies the representation invariant until
\* kei_string_destroy is applied to it; after that its ownership is absent
\* and its length and capacity are what they were (capacity length+1 if it
\* was owned, where data is now NULL; 0 if it was unowned).
C5_RepInvariantUntilDestroy ==
    \A h \in Handles :
        /\ slot[h] = "live" => RepOK(hv[h])
        /\ slot[h] = "destroyed" =>
              /\ hv[h].ref = NULL
              /\ hv[h].cap = IF hv[h].data = NULL THEN hv[h].len + 1 ELSE 0

\* An owned handle and an alias of it are live, and a third one is destroyed.
C5_Witness ==
    \E h, g \in Handles :
        /\ slot[h] = "live" /\ hv[h].ref # NULL /\ hv[h].len > 0
        /\ slot[g] = "destroyed" /\ hv[g].data = NULL /\ hv[g].cap = hv[g].len + 1

\* C10: kei_string_destroy on an owned handle clears the handle's ref and
\* data and lowers the shared counter by exactly 1, also when the counter
\* stays positive; a repeated destroy through the same variable changes
\* nothing.
C10_DestroyClearsHandle ==
    [][\A h \in Handles :
          last'.op = "destroy" /\ last'.a = h =>
              /\ hv[h].ref # NULL =>
                    /\ hv'[h].ref = NULL
                    /\ hv'[h].data = NULL
                    /\ cnt'[hv[h].ref].val = cnt[hv[h].ref].val - 1
              /\ last'.again =>
                    /\ hv' = hv
                    /\ mem' = mem
                    /\ cnt' = cnt]_vars

\* A handle was destroyed twice while its buffer, the only one allocated, is
\* still held by an alias: the counter went down once.
C10_Witness ==
    /\ last.op = "destroy"
    /\ last.again
    /\ hv[last.a].data = NULL
    /\ hv[last.a].cap > 0
    /\ \E c \in Addrs :
          /\ cnt[c].st = "live"
          /\ cnt[c].val = 1
          /\ hist[c].copies = 1
          /\ hist[c].destroys = 1
          /\ \A e \in Addrs \ {c} : cnt[e].st = "unused"

\* C6: a concat that returns yields a handle of length a.len + b.len whose
\* bytes are a's followed by b's, in a newly allocated buffer with a new
\* counter cell holding 1, and changes no other handle, buffer or counter.
C6_ConcatResult ==
    [][\A a, b \in Handles :
          last'.op = "concat" /\ last'.ok /\ last'.a = a /\ last'.b = b =>
              LET r == hv'[last'.out]
              IN  /\ r.len = hv[a].len + hv[b].len
                  /\ Str(mem', r) = Str(mem, hv[a]) \o Str(mem, hv[b])
                  /\ r.ref # NULL /\ r.data > 0
                  /\ RepOK(r)
                  /\ cnt[r.ref].st = "unused" /\ mem[r.data].st = "unused"
                  /\ cnt'[r.ref].st = "live" /\ mem'[r.data].st = "live"
                  /\ cnt'[r.ref].val = 1
                  /\ r.data \notin {hv[a].data, hv[b].data}
                  /\ r.ref \notin {hv[a].ref, hv[b].ref}
                  /\ \A h \in Handles \ {last'.out} : hv'[h] = hv[h]
                  /\ \A e \in Addrs \ {r.data} : mem'[e] = mem[e]
                  /\ \A e \in Addrs \ {r.ref} : cnt'[e] = cnt[e]]_vars

\* An owned string and a literal with different bytes were concatenated.
C6_Witness ==
    /\ last.op = "concat"
    /\ last.ok
    /\ hv[last.a].ref # NULL
    /\ hv[last.b].ref = NULL
    /\ hv[last.a].len > 0
    /\ hv[last.b].len > 0
    /\ Str(mem, hv[last.a]) # Str(mem, hv[last.b])
    /\ hv[last.out].len = 2

Clamp(x, lo, hi) == IF x < lo THEN lo ELSE IF x > hi THEN hi ELSE x

\* C7: a substr that returns yields the bytes [start', end') of s, with
\* start' and end' the arguments clamped into [0, s.len]: the unowned empty
\* literal without any allocation when start' >= end', and otherwise a newly
\* allocated buffer with a new counter cell holding 1; s, every other handle,
\* buffer and counter are unchanged.
C7_SubstrResult ==
    [][\A s \in Handles :
          last'.op = "substr" /\ last'.ok /\ last'.a = s =>
              LET r  == hv'[last'.out]
                  st == Clamp(last'.i, 0, hv[s].len)
                  en == Clamp(last'.j, 0, hv[s].len)
              IN  /\ \A h \in Handles \ {last'.out} : hv'[h] = hv[h]
                  /\ IF st >= en
                     THEN /\ r.ref = NULL
                          /\ r.len = 0
                          /\ r.cap = 0
                          /\ Str(mem', r) = <<>>
                          /\ mem' = mem
                          /\ cnt' = cnt
                     ELSE /\ r.len = en - st
                          /\ Str(mem', r) = SubSeq(Str(mem, hv[s]), st + 1, en)
                          /\ r.ref # NULL /\ r.data > 0
                          /\ RepOK(r)
                          /\ cnt[r.ref].st = "unused" /\ mem[r.data].st = "unused"
                          /\ cnt'[r.ref].st = "live" /\ mem'[r.data].st = "live"
                          /\ cnt'[r.ref].val = 1
                          /\ r.data # hv[s].data
                          /\ r.ref # hv[s].ref
                          /\ \A e \in Addrs \ {r.data} : mem'[e] = mem[e]
                          /\ \A e \in Addrs \ {r.ref} : cnt'[e] = cnt[e]]_vars

\* A negative start and an end one short of the length were applied to a
\* shared owned string of two different bytes, giving its first byte alone.
C7_Witness ==
    /\ last.op = "substr"
    /\ last.ok
    /\ last.i < 0
    /\ last.j = 1
    /\ hv[last.a].len = 2
    /\ hv[last.a].ref # NULL
    /\ cnt[hv[last.a].ref].val = 2
    /\ Str(mem, hv[last.a]) = <<2, 1>>
    /\ Str(mem, hv[last.out]) = <<2>>

C8_Outcome ==
    last.op = "bounds" =>
        /\ status = "exit1" <=> (last.i < 0 \/ last.i >= last.j)
        /\ status # "exit1" => status = "running" /\ last.ok

C8_Step ==
    /\ status = "running"
    /\ last'.op = "bounds" /\ last'.ok =>
          UNCHANGED <<hv, slot, mem, cnt, hist, status, diag, nullWrite>>

\* C8: kei_bounds_check(i, n) ends the process with exit status 1 exactly
\* when i < 0 or i >= n; otherwise it returns and changes no string, counter
\* or output; once the process has ended no further call is made.
C8_BoundsCheck == []C8_Outcome /\ [][C8_Step]_vars

\* A check with index = length > 0 has ended the process.
C8_Witness ==
    /\ last.op = "bounds"
    /\ last.i = last.j
    /\ last.i > 0
    /\ status = "exit1"
    /\ diag = <<"panic: index out of bounds", last.i, last.j>>

\* Byte-wise comparison of two string values.
ByteEq(m, a, b) ==
    /\ a.len = b.len
    /\ \A k \in 1..a.len : CBytes(m, a.data)[k] = CBytes(m, b.data)[k]

\* The string values over the storage of the live handles: the handles
\* themselves and every prefix of them (same storage, shorter length).
Views ==
    UNION {{[hv[h] EXCEPT !.len = n] : n \in 0..hv[h].len} :
              h \in {g \in Handles : Live(g)}}

\* C9: kei_string_eq is reflexive and symmetric and agrees with byte-wise
\* comparison, for the handles of the program and for values that share
\* storage with equal or different lengths; the result of every executed
\* comparison is the byte-wise one.
C9_EqIsByteEquality ==
    /\ \A a, b \in Views :
          /\ kei_string_eq(mem, a, a)
          /\ kei_string_eq(mem, a, b) = kei_string_eq(mem, b, a)
          /\ kei_string_eq(mem, a, b) = ByteEq(mem, a, b)
    /\ last.op = "eq" => last.res = ByteEq(mem, hv[last.a], hv[last.b])

\* Two copies of one two-byte allocation were compared and found equal.
C9_Witness ==
    /\ last.op = "eq"
    /\ last.res
    /\ last.a # last.b
    /\ hv[last.a].ref # NULL
    /\ hv[last.a].data = hv[last.b].data
    /\ hv[last.a].len = 2

=============================================================================
